---- MODULE Spec2Model ----
(***************************************************************************)
(* A model of the ledctl package: Raspberry Pi hardware detection          *)
(* (rpi/rpi.go), the WS281x driver with its PWM/DMA symbol buffer and the  *)
(* LPD8806 SPI driver.                                                     *)
(*                                                                         *)
(* Representation:                                                         *)
(*  - a Go string is the sequence of its characters;                       *)
(*  - a uint32 word of the symbol buffer is a function from bit position   *)
(*    0..31 (bit 31 is the most significant) to {0,1};                     *)
(*  - physical addresses are kept in units of 2^24 bytes (0x20000000 is    *)
(*    32), so that they fit 32-bit integers; only their order and          *)
(*    identity are used.                                                   *)
(***************************************************************************)
EXTENDS Integers, Sequences, FiniteSets, TLC

VARIABLES
  rasPiVariants,          \* rpi.go: var rasPiVariants (sorted in place once)
  sortRasPiVariantsOnce,  \* rpi.go: sync.Once, TRUE once Do has run
  hwModel,                \* contents of /proc/device-tree/model of the last call
  hwResult,               \* (hw, err) returned by the last detectHardware call
  szIn,                   \* receiver fields and argument of a pwmByteCount call
  szOut,                  \* its result (-1 before the call)
  kind,                   \* which driver the caller uses: "WS281x" or "LPD8806"
  status,                 \* "new", "open", "failed" (constructor error), "closed", "crashed"
  drv,                    \* the driver struct (WS281x or LPD8806)
  mbox,                   \* the RPi mailbox handle: "closed" or "open"
  dmaBuf,                 \* the DMA buffer: "none", "live" or "freed"
  ctorCalls,              \* the calls the constructor made, with their outcome
  closes,                 \* number of Close calls so far
  freeCalls,              \* number of FreeDMABuf calls so far
  lastOp,                 \* the last driver call, its arguments and outcome
  palette                 \* the colors the caller sets pixels to

hwVars == <<rasPiVariants, sortRasPiVariantsOnce, hwModel, hwResult>>
szVars == <<szIn, szOut>>
drvVars == <<kind, status, drv, mbox, dmaBuf, ctorCalls, closes, freeCalls,
             lastOp, palette>>
vars == <<hwVars, szVars, drvVars>>

(***************************************************************************)
(* rpi/rpi.go: hardware detection                                          *)
(***************************************************************************)
RPI_HWVER_TYPE_UNKNOWN == 0
RPI_HWVER_TYPE_PI1 == 1
RPI_HWVER_TYPE_PI2 == 2
RPI_HWVER_TYPE_PI4 == 3

\* 0x20000000, 0x3f000000, 0xfe000000 in units of 2^24
PERIPH_BASE_RPI == 32
PERIPH_BASE_RPI2 == 63
PERIPH_BASE_RPI4 == 254

\* 0x40000000, 0xc0000000 in units of 2^24
VIDEOCORE_BASE_RPI == 64
VIDEOCORE_BASE_RPI2 == 192

\* var rasPiVariants = []hw{...}, in source order
rasPiVariantsSrc ==
  <<
    \* "Raspberry Pi Model B"
    [hwType |-> RPI_HWVER_TYPE_PI1, periphBase |-> PERIPH_BASE_RPI,
     vcBase |-> VIDEOCORE_BASE_RPI,
     name |-> <<"R","a","s","p","b","e","r","r","y"," ","P","i"," ","M","o","d","e","l"," ","B">>],
    \* "Raspberry Pi Compute Module"
    [hwType |-> RPI_HWVER_TYPE_PI1, periphBase |-> PERIPH_BASE_RPI,
     vcBase |-> VIDEOCORE_BASE_RPI,
     name |-> <<"R","a","s","p","b","e","r","r","y"," ","P","i"," ","C","o","m","p","u","t","e"," ","M","o","d","u","l","e">>],
    \* "Raspberry Pi Zero W"
    [hwType |-> RPI_HWVER_TYPE_PI1, periphBase |-> PERIPH_BASE_RPI,
     vcBase |-> VIDEOCORE_BASE_RPI,
     name |-> <<"R","a","s","p","b","e","r","r","y"," ","P","i"," ","Z","e","r","o"," ","W">>],
    \* "Raspberry Pi 2 Model B"
    [hwType |-> RPI_HWVER_TYPE_PI2, periphBase |-> PERIPH_BASE_RPI2,
     vcBase |-> VIDEOCORE_BASE_RPI2,
     name |-> <<"R","a","s","p","b","e","r","r","y"," ","P","i"," ","2"," ","M","o","d","e","l"," ","B">>],
    \* "Raspberry Pi Compute Module 3"
    [hwType |-> RPI_HWVER_TYPE_PI2, periphBase |-> PERIPH_BASE_RPI2,
     vcBase |-> VIDEOCORE_BASE_RPI2,
     name |-> <<"R","a","s","p","b","e","r","r","y"," ","P","i"," ","C","o","m","p","u","t","e"," ","M","o","d","u","l","e"," ","3">>],
    \* "Raspberry Pi Compute Module 3 Plus"
    [hwType |-> RPI_HWVER_TYPE_PI2, periphBase |-> PERIPH_BASE_RPI2,
     vcBase |-> VIDEOCORE_BASE_RPI2,
     name |-> <<"R","a","s","p","b","e","r","r","y"," ","P","i"," ","C","o","m","p","u","t","e"," ","M","o","d","u","l","e"," ","3"," ","P","l","u","s">>],
    \* "Raspberry Pi 3 Model B"
    [hwType |-> RPI_HWVER_TYPE_PI2, periphBase |-> PERIPH_BASE_RPI2,
     vcBase |-> VIDEOCORE_BASE_RPI2,
     name |-> <<"R","a","s","p","b","e","r","r","y"," ","P","i"," ","3"," ","M","o","d","e","l"," ","B">>],
    \* "Raspberry Pi 3 Model B Plus"
    [hwType |-> RPI_HWVER_TYPE_PI2, periphBase |-> PERIPH_BASE_RPI2,
     vcBase |-> VIDEOCORE_BASE_RPI2,
     name |-> <<"R","a","s","p","b","e","r","r","y"," ","P","i"," ","3"," ","M","o","d","e","l"," ","B"," ","P","l","u","s">>],
    \* "Raspberry Pi 4 Model B"
    [hwType |-> RPI_HWVER_TYPE_PI4, periphBase |-> PERIPH_BASE_RPI4,
     vcBase |-> VIDEOCORE_BASE_RPI2,
     name |-> <<"R","a","s","p","b","e","r","r","y"," ","P","i"," ","4"," ","M","o","d","e","l"," ","B">>]
  >>

\* strings.HasPrefix
HasPrefix(s, prefix) ==
  /\ Len(prefix) <= Len(s)
  /\ \A k \in 1..Len(prefix) : s[k] = prefix[k]

\* A mutation of less: shorter names first.
less_shortestFirst(a, b) ==
  IF Len(a.name) = Len(b.name)
    THEN a.vcBase < b.vcBase
    ELSE Len(a.name) < Len(b.name)

\* the comparison passed to sort.Slice
less(a, b) ==
  IF Len(a.name) = Len(b.name)
    THEN a.vcBase < b.vcBase
    ELSE Len(a.name) > Len(b.name)

\* The orders sort.Slice may leave the elements S in: every arrangement in
\* which no element is less than one before it.  sort.Slice is not stable, so
\* elements that compare equal may come out in any order.
RECURSIVE SortedSeqs(_)
SortedSeqs(S) ==
  IF S = {} THEN {<< >>}
  ELSE UNION { { <<m>> \o t : t \in SortedSeqs(S \ {m}) } :
               m \in { x \in S : \A y \in S : ~less(y, x) } }

sortSlice(seq) == SortedSeqs({ seq[k] : k \in 1..Len(seq) })

\* the loop of detectHardware: the first variant whose name is a prefix
firstMatch(catalog, model) ==
  LET hits == { k \in 1..Len(catalog) : HasPrefix(model, catalog[k].name) }
  IN  IF hits = {} THEN << >>
      ELSE <<catalog[CHOOSE k \in hits : \A j \in hits : k <= j]>>

\* detectHardware on an already sorted catalog: hw is << >> for nil
detectHardwareResult(catalog, model, readOk) ==
  IF ~readOk THEN [hw |-> << >>, err |-> "couldn't open model file"]
  ELSE LET m == firstMatch(catalog, model)
       IN  IF m # << >> THEN [hw |-> m, err |-> "nil"]
           ELSE [hw |-> << >>, err |-> "couldn't identify Pi model"]

\* model strings: a cataloged name, a cataloged name with a suffix, others
Suffixes ==
  {<< >>,
   <<" ","3">>,
   <<" ","P","l","u","s">>,
   <<" ","R","e","v"," ","1",".","2">>,
   <<" ","R","e","v"," ","1",".","1">>,
   <<"X">>,
   <<"+">>,
   <<" ","M","o","d","e","l"," ","B">>,
   <<" ","W">>,
   <<" ","3"," ","P","l","u","s">>,
   <<" ","P","l","u","s"," ","R","e","v"," ","1",".","3">>,
   <<"\n">>}

OtherModels ==
  {<< >>,
   <<"r","a","s","p","b","e","r","r","y"," ","p","i"," ","m","o","d","e","l"," ","b">>,
   <<"R","a","s","p","b","e","r","r","y"," ","P","i"," ","5"," ","M","o","d","e","l"," ","B">>,
   <<"R","a","s","p","b","e","r","r","y"," ","P","i">>,
   <<"O","r","a","n","g","e"," ","P","i"," ","Z","e","r","o">>,
   <<"R","a","s","p","b","e","r","r","y"," ","P","i"," ","Z","e","r","o">>,
   <<"R","a","s","p","b","e","r","r","y"," ","P","i"," ","M","o","d","e","l"," ","A">>,
   <<" ","R","a","s","p","b","e","r","r","y"," ","P","i"," ","M","o","d","e","l"," ","B">>}

CatalogNames == { rasPiVariantsSrc[k].name : k \in 1..Len(rasPiVariantsSrc) }

ModelStrings == { n \o s : n \in CatalogNames, s \in Suffixes } \cup OtherModels

NoResult == [hw |-> << >>, err |-> "not called"]

HwInit ==
  /\ rasPiVariants = rasPiVariantsSrc
  /\ sortRasPiVariantsOnce = FALSE
  /\ hwModel = << >>
  /\ hwResult = NoResult

\* func detectHardware() (*hw, error)
detectHardware ==
  \E model \in ModelStrings, readOk \in BOOLEAN :
    \E sorted \in (IF sortRasPiVariantsOnce THEN {rasPiVariants}
                   ELSE sortSlice(rasPiVariants)) :
      /\ rasPiVariants' = sorted
      /\ sortRasPiVariantsOnce' = TRUE
      /\ hwModel' = IF readOk THEN model ELSE << >>
      /\ hwResult' = detectHardwareResult(sorted, model, readOk)


(***************************************************************************)
(* ledctl.go: color models                                                 *)
(***************************************************************************)
RGBWModel == 0
RGBModel == 1

\* a ColorModel value that is neither constant (ColorModel is an int type)
OtherModel == 2

ColorModels == {RGBWModel, RGBModel}

\* func (m ColorModel) NumColors() int
NumColors(m) ==
  CASE m = RGBWModel -> 4
    [] m = RGBModel -> 3
    [] OTHER -> 0

(***************************************************************************)
(* WS281x.pwmByteCount                                                     *)
(***************************************************************************)
ledReset_us == 55

\* rpi.RPI_PWM_CHANNELS: the number of hardware PWM output channels
RPI_PWM_CHANNELS == 2

\* A mutation of pwmByteCount: the extra word of margin is not added.
pwmByteCount_noMargin(numColors, numPixels, freq) ==
  LET bits == 3 * numColors * numPixels * 8
              + ((ledReset_us * (freq * 3)) \div 1000000)
      bytes == bits \div 8
  IN  (bytes - (bytes % 4)) * RPI_PWM_CHANNELS

\* A mutation of pwmByteCount: the remainder is added instead of subtracted.
pwmByteCount_addRemainder(numColors, numPixels, freq) ==
  LET bits == 3 * numColors * numPixels * 8
              + ((ledReset_us * (freq * 3)) \div 1000000)
      bytes == bits \div 8
  IN  (bytes + (bytes % 4) + 4) * RPI_PWM_CHANNELS

\* func (ws *WS281x) pwmByteCount(freq uint) uint
pwmByteCount(numColors, numPixels, freq) ==
  LET bits0 == 3 * numColors * numPixels * 8
      bits == bits0 + ((ledReset_us * (freq * 3)) \div 1000000)
      bytes0 == bits \div 8
      bytes1 == bytes0 - (bytes0 % 4)
      bytes2 == bytes1 + 4
  IN  bytes2 * RPI_PWM_CHANNELS

\* bounds of the sizing inputs
MaxSizePixels == 6
MaxFreqK == 24

SizePixels == 0..MaxSizePixels
SizeColors == { NumColors(m) : m \in ColorModels \cup {OtherModel} }
Frequencies ==
  {0, 1, 6060, 6061, 12121, 12122, 45000, 400000, 799999, 800000, 800001}
    \cup { 50000 * k : k \in 0..MaxFreqK }

SizeInputs == [numColors : SizeColors, numPixels : SizePixels, freq : Frequencies]

SzInit ==
  /\ szIn \in SizeInputs
  /\ szOut = -1

\* one call of pwmByteCount on the drawn input
CallPwmByteCount ==
  /\ szOut = -1
  /\ szOut' = pwmByteCount(szIn.numColors, szIn.numPixels, szIn.freq)
  /\ UNCHANGED szIn

\* the next call, on another receiver and argument
NextSizeInput ==
  /\ szOut # -1
  /\ szIn' \in SizeInputs
  /\ szOut' = -1

(***************************************************************************)
(* ledctl.go: color orders and the per-order channel offsets               *)
(***************************************************************************)
GRBOrder == 0
BRGOrder == 1
BGROrder == 2
GBROrder == 3
RGBOrder == 4
RBGOrder == 5
GRBWOrder == 6

ColorOrders ==
  {GRBOrder, BRGOrder, BGROrder, GBROrder, RGBOrder, RBGOrder, GRBWOrder}

\* A mutation of offsets: BGR stores red and blue in the same slot.
offsets_aliased(order) ==
  CASE order = GRBOrder -> <<0, 1, 2, -1>>
    [] order = BRGOrder -> <<2, 1, 0, -1>>
    [] order = BGROrder -> <<1, 0, 0, -1>>
    [] order = GBROrder -> <<0, 2, 1, -1>>
    [] order = RGBOrder -> <<1, 0, 2, -1>>
    [] order = RBGOrder -> <<2, 0, 1, -1>>
    [] order = GRBWOrder -> <<0, 1, 2, 3>>

\* var offsets = map[ColorOrder][]int{...}: the slots of g, r, b, w
offsets(order) ==
  CASE order = GRBOrder -> <<0, 1, 2, -1>>
    [] order = BRGOrder -> <<2, 1, 0, -1>>
    [] order = BGROrder -> <<1, 2, 0, -1>>
    [] order = GBROrder -> <<0, 2, 1, -1>>
    [] order = RGBOrder -> <<1, 0, 2, -1>>
    [] order = RBGOrder -> <<2, 0, 1, -1>>
    [] order = GRBWOrder -> <<0, 1, 2, 3>>

(***************************************************************************)
(* Go slices of bytes: indexing is 0-based and panics out of range.  A     *)
(* store state is [pixels, panic]; once panic is set nothing more happens. *)
(***************************************************************************)
InRange(seq, idx) == 0 <= idx /\ idx < Len(seq)

\* s[idx] = val
Store(st, idx, val) ==
  IF st.panic THEN st
  ELSE IF ~InRange(st.pixels, idx) THEN [st EXCEPT !.panic = TRUE]
  ELSE [st EXCEPT !.pixels[idx + 1] = val]

\* s[idx] = src[srcIdx].field: the right-hand side is evaluated first
StoreFrom(st, idx, src, srcIdx, field) ==
  IF st.panic THEN st
  ELSE IF ~InRange(src, srcIdx) THEN [st EXCEPT !.panic = TRUE]
  ELSE Store(st, idx, src[srcIdx + 1][field])

Started(d) == [pixels |-> d.pixels, panic |-> FALSE]
Panicked(d) == [pixels |-> d.pixels, panic |-> TRUE]

NoColor == [R |-> 0, G |-> 0, B |-> 0, W |-> 0]
RGBOf(c) == [R |-> c.R, G |-> c.G, B |-> c.B]

(***************************************************************************)
(* WS281x pixel accessors                                                  *)
(***************************************************************************)
\* func (ws *WS281x) RGBWAt(i int) RGBW
WS281x_RGBWAt(ws, i) ==
  LET o == i * ws.numColors
  IN  IF \A x \in {ws.r, ws.g, ws.b, ws.w} : InRange(ws.pixels, o + x)
        THEN [panic |-> FALSE,
              val |-> [R |-> ws.pixels[o + ws.r + 1], G |-> ws.pixels[o + ws.g + 1],
                       B |-> ws.pixels[o + ws.b + 1], W |-> ws.pixels[o + ws.w + 1]]]
        ELSE [panic |-> TRUE, val |-> NoColor]

\* func (ws *WS281x) SetRGBWAt(i int, rgbw RGBW)
WS281x_SetRGBWAt(ws, i, rgbw) ==
  LET o == i * ws.numColors
      s1 == Store(Started(ws), o + ws.r, rgbw.R)
      s2 == Store(s1, o + ws.g, rgbw.G)
      s3 == Store(s2, o + ws.b, rgbw.B)
  IN  Store(s3, o + ws.w, rgbw.W)

\* the loop of WS281x.SetRGBWs: i steps through ws.pixels by 4, a by 1
RECURSIVE WS281x_SetRGBWsLoop(_, _, _, _, _)
WS281x_SetRGBWsLoop(st, ws, pixels, i, a) ==
  IF st.panic \/ ~(i < Len(ws.pixels)) THEN st
  ELSE LET s1 == StoreFrom(st, a + ws.r, pixels, i, "R")
           s2 == StoreFrom(s1, a + ws.g, pixels, i, "G")
           s3 == StoreFrom(s2, a + ws.b, pixels, i, "B")
           s4 == StoreFrom(s3, a + ws.w, pixels, i, "W")
       IN  WS281x_SetRGBWsLoop(s4, ws, pixels, i + 4, a + 1)

\* func (ws *WS281x) SetRGBWs(pixels []RGBW)
WS281x_SetRGBWs(ws, pixels) ==
  IF ws.numColors # 4 THEN Panicked(ws)
  ELSE IF Len(pixels) # ws.numPixels THEN Panicked(ws)
  ELSE WS281x_SetRGBWsLoop(Started(ws), ws, pixels, 0, 0)

\* func (ws *WS281x) RGBAt(i int) RGB
WS281x_RGBAt(ws, i) ==
  LET o == i * ws.numColors
  IN  IF \A x \in {ws.r, ws.g, ws.b} : InRange(ws.pixels, o + x)
        THEN [panic |-> FALSE,
              val |-> [R |-> ws.pixels[o + ws.r + 1], G |-> ws.pixels[o + ws.g + 1],
                       B |-> ws.pixels[o + ws.b + 1]]]
        ELSE [panic |-> TRUE, val |-> RGBOf(NoColor)]

\* func (ws *WS281x) SetRGBAt(i int, rgb RGB)
WS281x_SetRGBAt(ws, i, rgb) ==
  LET o == i * ws.numColors
      s1 == Store(Started(ws), o + ws.r, rgb.R)
      s2 == Store(s1, o + ws.g, rgb.G)
  IN  Store(s2, o + ws.b, rgb.B)

\* the loop of WS281x.SetRGBs: i steps through ws.pixels by 3, a by 1
RECURSIVE WS281x_SetRGBsLoop(_, _, _, _, _)
WS281x_SetRGBsLoop(st, ws, pixels, i, a) ==
  IF st.panic \/ ~(i < Len(ws.pixels)) THEN st
  ELSE LET s1 == StoreFrom(st, i + ws.r, pixels, a, "R")
           s2 == StoreFrom(s1, i + ws.g, pixels, a, "G")
           s3 == StoreFrom(s2, i + ws.b, pixels, a, "B")
       IN  WS281x_SetRGBsLoop(s3, ws, pixels, i + 3, a + 1)

\* A mutation of WS281x.SetRGBs: the length check comes after the loop.
WS281x_SetRGBs_lateCheck(ws, pixels) ==
  IF ws.numColors # 3 THEN Panicked(ws)
  ELSE LET st == WS281x_SetRGBsLoop(Started(ws), ws, pixels, 0, 0)
       IN  IF Len(pixels) # ws.numPixels THEN [st EXCEPT !.panic = TRUE] ELSE st

\* func (ws *WS281x) SetRGBs(pixels []RGB)
WS281x_SetRGBs(ws, pixels) ==
  IF ws.numColors # 3 THEN Panicked(ws)
  ELSE IF Len(pixels) # ws.numPixels THEN Panicked(ws)
  ELSE WS281x_SetRGBsLoop(Started(ws), ws, pixels, 0, 0)

(***************************************************************************)
(* LPD8806 pixel accessors: a stored byte is 0x80 | value, read & 0x7F     *)
(***************************************************************************)
\* 0x80 | x on a byte
Or80(x) == IF x >= 128 THEN x ELSE x + 128

\* x & 0x7F on a byte
And7F(x) == x % 128

\* func (la *LPD8806) RGBWAt(i int) RGBW
LPD8806_RGBWAt(la, i) ==
  LET o == i * la.numColors
  IN  IF \A x \in {la.r, la.g, la.b, la.w} : InRange(la.pixels, o + x)
        THEN [panic |-> FALSE,
              val |-> [R |-> And7F(la.pixels[o + la.r + 1]),
                       G |-> And7F(la.pixels[o + la.g + 1]),
                       B |-> And7F(la.pixels[o + la.b + 1]),
                       W |-> And7F(la.pixels[o + la.w + 1])]]
        ELSE [panic |-> TRUE, val |-> NoColor]

\* func (la *LPD8806) SetRGBWAt(i int, rgbw RGBW)
LPD8806_SetRGBWAt(la, i, rgbw) ==
  LET o == i * la.numColors
      s1 == Store(Started(la), o + la.r, Or80(rgbw.R))
      s2 == Store(s1, o + la.g, Or80(rgbw.G))
      s3 == Store(s2, o + la.b, Or80(rgbw.B))
  IN  Store(s3, o + la.w, Or80(rgbw.W))

\* the colors of a sequence as the LPD8806 stores them
Or80All(pixels) ==
  [k \in 1..Len(pixels) |->
     [f \in DOMAIN pixels[k] |-> Or80(pixels[k][f])]]

\* the loop of LPD8806.SetRGBWs: i steps through la.pixels by 4, a by 1
RECURSIVE LPD8806_SetRGBWsLoop(_, _, _, _, _)
LPD8806_SetRGBWsLoop(st, la, pixels, i, a) ==
  IF st.panic \/ ~(i < Len(la.pixels)) THEN st
  ELSE LET s1 == StoreFrom(st, a + la.r, Or80All(pixels), i, "R")
           s2 == StoreFrom(s1, a + la.g, Or80All(pixels), i, "G")
           s3 == StoreFrom(s2, a + la.b, Or80All(pixels), i, "B")
           s4 == StoreFrom(s3, a + la.w, Or80All(pixels), i, "W")
       IN  LPD8806_SetRGBWsLoop(s4, la, pixels, i + 4, a + 1)

\* func (la *LPD8806) SetRGBWs(pixels []RGBW)
LPD8806_SetRGBWs(la, pixels) ==
  IF la.numColors # 4 THEN Panicked(la)
  ELSE IF Len(pixels) # la.numPixels THEN Panicked(la)
  ELSE LPD8806_SetRGBWsLoop(Started(la), la, pixels, 0, 0)

\* func (la *LPD8806) RGBAt(i int) RGB
LPD8806_RGBAt(la, i) ==
  LET o == i * la.numColors
  IN  IF \A x \in {la.r, la.g, la.b} : InRange(la.pixels, o + x)
        THEN [panic |-> FALSE,
              val |-> [R |-> And7F(la.pixels[o + la.r + 1]),
                       G |-> And7F(la.pixels[o + la.g + 1]),
                       B |-> And7F(la.pixels[o + la.b + 1])]]
        ELSE [panic |-> TRUE, val |-> RGBOf(NoColor)]

\* func (la *LPD8806) SetRGBAt(i int, rgb RGB)
LPD8806_SetRGBAt(la, i, rgb) ==
  LET o == i * la.numColors
      s1 == Store(Started(la), o + la.r, Or80(rgb.R))
      s2 == Store(s1, o + la.g, Or80(rgb.G))
  IN  Store(s2, o + la.b, Or80(rgb.B))

\* the loop of LPD8806.SetRGBs: i steps through la.pixels by 3, a by 1
RECURSIVE LPD8806_SetRGBsLoop(_, _, _, _, _)
LPD8806_SetRGBsLoop(st, la, pixels, i, a) ==
  IF st.panic \/ ~(i < Len(la.pixels)) THEN st
  ELSE LET s1 == StoreFrom(st, i + la.r, Or80All(pixels), a, "R")
           s2 == StoreFrom(s1, i + la.g, Or80All(pixels), a, "G")
           s3 == StoreFrom(s2, i + la.b, Or80All(pixels), a, "B")
       IN  LPD8806_SetRGBsLoop(s3, la, pixels, i + 3, a + 1)

\* func (la *LPD8806) SetRGBs(pixels []RGB)
LPD8806_SetRGBs(la, pixels) ==
  IF la.numColors # 3 THEN Panicked(la)
  ELSE IF Len(pixels) # la.numPixels THEN Panicked(la)
  ELSE LPD8806_SetRGBsLoop(Started(la), la, pixels, 0, 0)

\* la.buffer: the pixel bytes followed by the reset bytes
LPD8806_buffer(la) == la.pixels \o [k \in 1..la.numReset |-> 0]

(***************************************************************************)
(* WS281x.Flush: the symbol encoding                                       *)
(***************************************************************************)
symbolHigh == 6
symbolLow == 4

\* x & (1 << k) != 0, as 0 or 1
Bit(x, k) == (x \div (2 ^ k)) % 2

\* A mutation of the innermost loop body: the bit is set but never cleared.
WriteSymbolBit_noClear(word, bitPos, symbol, l) ==
  IF Bit(symbol, l) # 0 THEN word \cup {bitPos} ELSE word

\* A mutation of the innermost loop body: the bits below bitPos are cleared
\* along with it.
WriteSymbolBit_clearBelow(word, bitPos, symbol, l) ==
  LET cleared == { b \in word : b > bitPos }
  IN  IF Bit(symbol, l) # 0 THEN cleared \cup {bitPos} ELSE cleared

\* the body of the innermost loop on one word (the set of its 1 bits):
\* clear bit bitPos, then set it if bit l of the symbol is set
WriteSymbolBit(word, bitPos, symbol, l) ==
  LET cleared == word \ {bitPos}
  IN  IF Bit(symbol, l) # 0 THEN cleared \cup {bitPos} ELSE cleared

\* The encoder's position: the words, the word index rpPos, the bit
\* position bitPos, and whether an index past the end of pixDMAUint has
\* panicked (the words written until then stay written).
EncState(buf, rpPos, bitPos) ==
  [buf |-> buf, rpPos |-> rpPos, bitPos |-> bitPos, panic |-> FALSE]

\* for l := 2; l >= 0; l-- { ... }
RECURSIVE LoopL(_, _, _)
LoopL(st, symbol, l) ==
  IF st.panic \/ ~(l >= 0) THEN st
  ELSE IF ~InRange(st.buf, st.rpPos) THEN [st EXCEPT !.panic = TRUE]
  ELSE LET word == WriteSymbolBit(st.buf[st.rpPos + 1], st.bitPos, symbol, l)
           written == [st EXCEPT !.buf[st.rpPos + 1] = word]
           moved == IF st.bitPos - 1 < 0
                      THEN [written EXCEPT !.rpPos = st.rpPos + 2, !.bitPos = 31]
                      ELSE [written EXCEPT !.bitPos = st.bitPos - 1]
       IN  LoopL(moved, symbol, l - 1)

\* for k := 7; k >= 0; k-- { ... }, on the byte ws.pixels[i*ws.numColors+j]
RECURSIVE LoopK(_, _, _)
LoopK(st, byte, k) ==
  IF st.panic \/ ~(k >= 0) THEN st
  ELSE LET symbol == IF Bit(byte, k) # 0 THEN symbolHigh ELSE symbolLow
       IN  LoopK(LoopL(st, symbol, 2), byte, k - 1)

\* for j := 0; j < ws.numColors; j++ { ... }
RECURSIVE LoopJ(_, _, _, _)
LoopJ(st, ws, i, j) ==
  IF st.panic \/ ~(j < ws.numColors) THEN st
  ELSE LoopJ(LoopK(st, ws.pixels[i * ws.numColors + j + 1], 7), ws, i, j + 1)

\* for i := 0; i < ws.numPixels; i++ { ... }
RECURSIVE LoopI(_, _, _)
LoopI(st, ws, i) ==
  IF st.panic \/ ~(i < ws.numPixels) THEN st
  ELSE LoopI(LoopJ(st, ws, i, 0), ws, i + 1)

\* for c := 0; c < 2; c++ { rpPos := c; bitPos := 31; ... }
EncodeChannels(ws) ==
  LET c0 == LoopI(EncState(ws.pixDMAUint, 0, 31), ws, 0)
  IN  IF c0.panic THEN c0 ELSE LoopI(EncState(c0.buf, 1, 31), ws, 0)

\* a call on the RPi handle (or the device) and whether it succeeded
Call(name, ok) == <<name, ok>>

\* A mutation of WS281x.Flush: the buffer is encoded before the wait.
WS281x_Flush_encodeFirst(ws, waitOk) ==
  LET e == EncodeChannels(ws)
      ws2 == [ws EXCEPT !.pixDMAUint = e.buf]
  IN  IF e.panic
        THEN [ws |-> ws2, res |-> "panic", calls |-> <<Call("encode", FALSE)>>]
      ELSE IF ~waitOk
        THEN [ws |-> ws2, res |-> "err",
              calls |-> <<Call("encode", TRUE), Call("WaitForDMAEnd", FALSE)>>]
      ELSE [ws |-> ws2, res |-> "ok",
            calls |-> <<Call("encode", TRUE), Call("WaitForDMAEnd", TRUE),
                        Call("StartDMA", TRUE)>>]

\* func (ws *WS281x) Flush() error
WS281x_Flush(ws, waitOk) ==
  IF ~waitOk
    THEN [ws |-> ws, res |-> "err", calls |-> <<Call("WaitForDMAEnd", FALSE)>>]
  ELSE LET e == EncodeChannels(ws)
           ws2 == [ws EXCEPT !.pixDMAUint = e.buf]
       IN  IF e.panic
             THEN [ws |-> ws2, res |-> "panic",
                   calls |-> <<Call("WaitForDMAEnd", TRUE), Call("encode", FALSE)>>]
             ELSE [ws |-> ws2, res |-> "ok",
                   calls |-> <<Call("WaitForDMAEnd", TRUE), Call("encode", TRUE),
                               Call("StartDMA", TRUE)>>]

\* Flush on a buffer that FreeDMABuf has unmapped: pixDMAUint dangles.  The
\* stores either fault (the process dies) or land in whatever is mapped at
\* that address now, and Flush goes on to StartDMA.
WS281x_FlushDangling(ws, waitOk) ==
  IF waitOk /\ ws.numPixels * ws.numColors > 0
    THEN { WS281x_Flush(ws, waitOk),
           [ws |-> ws, res |-> "fault",
            calls |-> <<Call("WaitForDMAEnd", TRUE), Call("encode", FALSE)>>] }
    ELSE { WS281x_Flush(ws, waitOk) }

\* func (la *LPD8806) Flush() error
LPD8806_Flush(la, writeOk) ==
  [ws |-> la, res |-> IF writeOk THEN "ok" ELSE "err",
   calls |-> <<Call("dev.Write", writeOk)>>]

(***************************************************************************)
(* The RPi handle.  Of package rpi only NewRPi and detectHardware are at   *)
(* hand; what mboxOpen, GetDMABuf, Uint32Slice and FreeDMABuf do to the    *)
(* mailbox and the DMA buffer is taken from their documented contract, and *)
(* whether each call succeeds is the environment's choice.                 *)
(***************************************************************************)
\* rp.mboxOpen(): the mailbox handle after the call
mboxOpen(ok) == IF ok THEN "open" ELSE "closed"

\* func NewRPi() (*RPi, error)
NewRPi(sorted, env) ==
  LET det == detectHardwareResult(sorted, env.model, env.readOk)
  IN  IF det.err # "nil"
        THEN [err |-> "couldn't detect RPi hardware", mbox |-> "closed", det |-> det]
      ELSE IF mboxOpen(env.mboxOk) # "open"
        THEN [err |-> "couldn't open mailbox", mbox |-> mboxOpen(env.mboxOk),
              det |-> det]
      ELSE [err |-> "nil", mbox |-> mboxOpen(env.mboxOk), det |-> det]

\* rp.GetDMABuf(bytes) then DMABuf.Uint32Slice(): bytes/4 words of memory
\* whose content is not initialised (all bits 0 or all bits 1 here)
Uint32Slice(bytes, fill) ==
  [k \in 1..(bytes \div 4) |-> IF fill = 1 THEN 0..31 ELSE {}]

\* rp.FreeDMABuf(buf): the buffer after the call.  An error may come before
\* or after the unmapping; a freed buffer stays freed.
FreeDMABuf(buf, outcome) ==
  IF buf = "freed" \/ outcome # "err_mapped" THEN "freed" ELSE "live"

FreeOutcomes == {"ok", "err_unmapped", "err_mapped"}

NoDriver == [numPixels |-> 0, numColors |-> 0, pixels |-> << >>,
             g |-> 0, r |-> 0, b |-> 0, w |-> 0]

\* func NewWS281x(config WS281xConfig) (*WS281x, error)
NewWS281x(config, sorted, env) ==
  LET rp == NewRPi(sorted, env)
      offs == offsets(config.ColorOrder)
      numColors == NumColors(config.ColorModel)
      wa == [numPixels |-> config.NumPixels,
             numColors |-> numColors,
             pixels |-> [k \in 1..(config.NumPixels * numColors) |-> 0],
             g |-> offs[1], r |-> offs[2], b |-> offs[3], w |-> offs[4],
             pixDMAUint |-> << >>]
      bytes == pwmByteCount(wa.numColors, wa.numPixels, config.PWMFrequency)
      wa2 == [wa EXCEPT !.pixDMAUint = Uint32Slice(bytes, env.fill)]
      freed == FreeDMABuf("live", env.freeOutcome)
      free == Call("FreeDMABuf", env.freeOutcome = "ok")
      got == <<Call("NewRPi", TRUE), Call("GetDMABuf", TRUE)>>
      Failed(calls, buf, frees) ==
        [err |-> TRUE, drv |-> NoDriver, mbox |-> rp.mbox, dmaBuf |-> buf,
         calls |-> calls, frees |-> frees, det |-> rp.det]
  IN  IF rp.err # "nil"
        THEN Failed(<<Call("NewRPi", FALSE)>>, "none", 0)
      ELSE IF env.failAt = "GetDMABuf"
        THEN Failed(<<Call("NewRPi", TRUE), Call("GetDMABuf", FALSE)>>, "none", 0)
      ELSE IF env.failAt = "InitDMA"
        THEN Failed(got \o <<Call("InitDMA", FALSE), free>>, freed, 1)
      ELSE IF env.failAt = "InitGPIO"
        THEN Failed(got \o <<Call("InitDMA", TRUE), Call("InitGPIO", FALSE), free>>,
                    freed, 1)
      ELSE IF env.failAt = "InitPWM"
        THEN Failed(got \o <<Call("InitDMA", TRUE), Call("InitGPIO", TRUE),
                              Call("InitPWM", FALSE), free>>, freed, 1)
      ELSE [err |-> FALSE, drv |-> wa2, mbox |-> rp.mbox, dmaBuf |-> "live",
            calls |-> got \o <<Call("InitDMA", TRUE), Call("InitGPIO", TRUE),
                                Call("InitPWM", TRUE)>>,
            frees |-> 0, det |-> rp.det]

\* A mutation of WS281x.Close: the buffer is freed before the PWM is stopped.
WS281x_Close_freeFirst(buf, outcome) ==
  [res |-> IF outcome = "ok" THEN "ok" ELSE "err",
   calls |-> <<Call("FreeDMABuf", outcome = "ok"), Call("StopPWM", TRUE)>>,
   dmaBuf |-> FreeDMABuf(buf, outcome), frees |-> 1]

\* func (ws *WS281x) Close() error
WS281x_Close(buf, outcome) ==
  [res |-> IF outcome = "ok" THEN "ok" ELSE "err",
   calls |-> <<Call("StopPWM", TRUE), Call("FreeDMABuf", outcome = "ok")>>,
   dmaBuf |-> FreeDMABuf(buf, outcome), frees |-> 1]

\* func NewLPD8806(config LPD8806Config) (*LPD8806, error)
NewLPD8806(config, sorted, env) ==
  LET numReset == (config.NumPixels + 31) \div 32
      numColors == NumColors(config.ColorModel)
      offs == offsets(config.ColorOrder)
      rp == NewRPi(sorted, env)
      la == [numPixels |-> config.NumPixels,
             numColors |-> numColors,
             pixels |-> [k \in 1..(config.NumPixels * numColors) |-> 0],
             numReset |-> numReset,
             g |-> offs[1], r |-> offs[2], b |-> offs[3], w |-> offs[4]]
      spi == IF config.SPISpeed # 0
               THEN <<Call("SetSPISpeed", env.failAt # "SetSPISpeed")>> ELSE << >>
      Failed(calls) ==
        [err |-> TRUE, drv |-> NoDriver, mbox |-> rp.mbox, dmaBuf |-> "none",
         calls |-> calls, frees |-> 0, det |-> rp.det]
  IN  IF rp.err # "nil"
        THEN Failed(<<Call("NewRPi", FALSE)>>)
      ELSE IF config.SPISpeed # 0 /\ env.failAt = "SetSPISpeed"
        THEN Failed(<<Call("NewRPi", TRUE)>> \o spi)
      ELSE IF env.failAt = "dev.Write"
        THEN Failed(<<Call("NewRPi", TRUE)>> \o spi \o <<Call("dev.Write", FALSE)>>)
      ELSE [err |-> FALSE, drv |-> la, mbox |-> rp.mbox, dmaBuf |-> "none",
            calls |-> <<Call("NewRPi", TRUE)>> \o spi \o <<Call("dev.Write", TRUE)>>,
            frees |-> 0, det |-> rp.det]

\* func (la *LPD8806) Close() error
LPD8806_Close(buf, outcome) ==
  [res |-> "ok", calls |-> << >>, dmaBuf |-> buf, frees |-> 0]

(***************************************************************************)
(* The caller and the environment: configurations, outcomes of the calls   *)
(* on the hardware, colors                                                 *)
(***************************************************************************)
MaxPixels == 2
MaxEncPixels == 1
MaxCloses == 1

DrvFrequencies == {800000}

WSConfigs ==
  [NumPixels : 0..MaxPixels, ColorOrder : ColorOrders, ColorModel : ColorModels,
   PWMFrequency : DrvFrequencies]

LPDConfigs ==
  [NumPixels : 0..MaxPixels, ColorOrder : ColorOrders, ColorModel : ColorModels,
   SPISpeed : {0, 12000000}]

\* the color model an order is meant for
ModelOf(order) == IF order = GRBWOrder THEN RGBWModel ELSE RGBModel

\* the configurations of the life-cycle runs: each order with its color model
LifeConfigs == { c \in WSConfigs : c.ColorModel = ModelOf(c.ColorOrder) }

\* the configurations of the encoding runs: each order with its color model
EncConfigs ==
  { c \in [NumPixels : 1..MaxEncPixels, ColorOrder : ColorOrders,
           ColorModel : ColorModels, PWMFrequency : {0, 800000}] :
      c.ColorModel = ModelOf(c.ColorOrder) }

\* "Raspberry Pi 3 Model B Plus Rev 1.3" and a board that is not cataloged
GoodModel ==
  <<"R","a","s","p","b","e","r","r","y"," ","P","i"," ","3"," ","M","o","d","e","l"," ","B"," ","P","l","u","s"," ","R","e","v"," ","1",".","3">>
BadModel ==
  <<"O","r","a","n","g","e"," ","P","i"," ","Z","e","r","o">>

\* The outcomes of the calls a constructor makes: the model file, the
\* mailbox, the first failing call (if any), the outcome of the cleanup
\* FreeDMABuf, and the content of fresh DMA memory.  Outcomes of calls that
\* are not reached are fixed.
CtorEnvs(failPoints) ==
  { e \in [model : {GoodModel, BadModel}, readOk : BOOLEAN, mboxOk : BOOLEAN,
           failAt : {"none"} \cup failPoints, freeOutcome : FreeOutcomes,
           fill : {0, 1}] :
      LET rpOk == e.readOk /\ e.model = GoodModel /\ e.mboxOk
      IN  /\ ~e.readOk => e.model = GoodModel /\ e.mboxOk
          /\ e.model = BadModel => e.mboxOk
          /\ ~rpOk => e.failAt = "none"
          /\ e.failAt \notin {"InitDMA", "InitGPIO", "InitPWM"} => e.freeOutcome = "ok"
          /\ (~rpOk \/ e.failAt # "none") => e.fill = 0 }

WSEnvs == CtorEnvs({"GetDMABuf", "InitDMA", "InitGPIO", "InitPWM"})
LPDEnvs == { e \in CtorEnvs({"SetSPISpeed", "dev.Write"}) : e.fill = 0 }

\* an environment in which every call succeeds
GoodEnv(fill) ==
  [model |-> GoodModel, readOk |-> TRUE, mboxOk |-> TRUE, failAt |-> "none",
   freeOutcome |-> "ok", fill |-> fill]

\* the catalog as one run of the sort leaves it
SortedOnce == CHOOSE sorted \in sortSlice(rasPiVariantsSrc) : TRUE

LifecyclePalette == { [R |-> 255, G |-> 0, B |-> 85, W |-> 170] }
PixPalette == LifecyclePalette \cup { [R |-> 1, G |-> 2, B |-> 3, W |-> 4] }

\* colors whose R, G and B between them take every byte value
SweepColor(v) ==
  [R |-> v, G |-> (v + 86) % 256, B |-> (v + 172) % 256, W |-> 255 - v]
SweepPalettes == { {SweepColor(v)} : v \in 0..85 }

Op(name, i, arg, res, calls) ==
  [name |-> name, i |-> i, arg |-> arg, res |-> res, calls |-> calls]

\* the driver can be called: a constructor returned it and the process lives
Usable == status \in {"open", "closed"}

(***************************************************************************)
(* Actions: one per exported function or method                            *)
(***************************************************************************)
\* the state a constructor call leaves, r being what the constructor did
Constructed(k, r, sorted, env) ==
  /\ kind' = k
  /\ status' = IF r.err THEN "failed" ELSE "open"
  /\ drv' = r.drv
  /\ mbox' = r.mbox
  /\ dmaBuf' = r.dmaBuf
  /\ ctorCalls' = r.calls
  /\ freeCalls' = r.frees
  /\ closes' = 0
  /\ lastOp' = Op("New" \o k, -1, << >>, IF r.err THEN "err" ELSE "ok", r.calls)
  /\ rasPiVariants' = sorted
  /\ sortRasPiVariantsOnce' = TRUE
  /\ hwModel' = IF env.readOk THEN env.model ELSE << >>
  /\ hwResult' = r.det
  /\ UNCHANGED <<szVars, palette>>

SortChoices ==
  IF sortRasPiVariantsOnce THEN {rasPiVariants} ELSE sortSlice(rasPiVariants)

NewWS281xCall ==
  /\ status = "new"
  /\ \E config \in LifeConfigs, env \in WSEnvs, sorted \in SortChoices :
       Constructed("WS281x", NewWS281x(config, sorted, env), sorted, env)

NewLPD8806Call ==
  /\ status = "new"
  /\ \E config \in LPDConfigs, env \in LPDEnvs, sorted \in SortChoices :
       Constructed("LPD8806", NewLPD8806(config, sorted, env), sorted, env)

\* a pixel setter returned or panicked, leaving st.pixels
PixelsSet(name, i, arg, st) ==
  /\ drv' = [drv EXCEPT !.pixels = st.pixels]
  /\ lastOp' = Op(name, i, arg, IF st.panic THEN "panic" ELSE "ok", << >>)
  /\ UNCHANGED <<hwVars, szVars, kind, status, mbox, dmaBuf, ctorCalls, closes,
                 freeCalls, palette>>

SetRGBAtCall ==
  /\ Usable
  /\ \E i \in 0..(drv.numPixels - 1), c \in palette :
       PixelsSet("SetRGBAt", i, <<RGBOf(c)>>,
                 IF kind = "WS281x" THEN WS281x_SetRGBAt(drv, i, RGBOf(c))
                 ELSE LPD8806_SetRGBAt(drv, i, RGBOf(c)))

SetRGBWAtCall ==
  /\ Usable
  /\ \E i \in 0..(drv.numPixels - 1), c \in palette :
       PixelsSet("SetRGBWAt", i, <<c>>,
                 IF kind = "WS281x" THEN WS281x_SetRGBWAt(drv, i, c)
                 ELSE LPD8806_SetRGBWAt(drv, i, c))

\* the sequences a caller passes to a bulk setter: right and wrong lengths
BulkInputs ==
  UNION { [1..n -> palette] : n \in 0..(drv.numPixels + 1) }

SetRGBsCall ==
  /\ Usable
  /\ \E p \in BulkInputs :
       LET pixels == [k \in 1..Len(p) |-> RGBOf(p[k])]
       IN  PixelsSet("SetRGBs", -1, pixels,
                     IF kind = "WS281x" THEN WS281x_SetRGBs(drv, pixels)
                     ELSE LPD8806_SetRGBs(drv, pixels))

SetRGBWsCall ==
  /\ Usable
  /\ \E p \in BulkInputs :
       PixelsSet("SetRGBWs", -1, p,
                 IF kind = "WS281x" THEN WS281x_SetRGBWs(drv, p)
                 ELSE LPD8806_SetRGBWs(drv, p))

FlushCall ==
  /\ Usable
  /\ \E ok \in BOOLEAN :
       \E r \in (IF kind # "WS281x" THEN {LPD8806_Flush(drv, ok)}
                 ELSE IF dmaBuf = "freed" THEN WS281x_FlushDangling(drv, ok)
                 ELSE {WS281x_Flush(drv, ok)}) :
         /\ drv' = r.ws
         /\ lastOp' = Op("Flush", -1, << >>, r.res, r.calls)
         /\ status' = IF r.res = "fault" THEN "crashed" ELSE status
  /\ UNCHANGED <<hwVars, szVars, kind, mbox, dmaBuf, ctorCalls, closes, freeCalls,
                 palette>>

CloseCall ==
  /\ Usable
  /\ closes < MaxCloses
  /\ \E outcome \in (IF kind = "WS281x" THEN FreeOutcomes ELSE {"ok"}) :
       LET r == IF kind = "WS281x" THEN WS281x_Close(dmaBuf, outcome)
                ELSE LPD8806_Close(dmaBuf, outcome)
       IN  /\ dmaBuf' = r.dmaBuf
           /\ freeCalls' = freeCalls + r.frees
           /\ status' = IF r.res = "ok" THEN "closed" ELSE status
           /\ lastOp' = Op("Close", -1, << >>, r.res, r.calls)
  /\ closes' = closes + 1
  /\ UNCHANGED <<hwVars, szVars, kind, drv, mbox, ctorCalls, palette>>

\* no sizing call under way
SzIdle ==
  /\ szIn = [numColors |-> 0, numPixels |-> 0, freq |-> 0]
  /\ szOut = -1

(***************************************************************************)
(* Specifications                                                          *)
(***************************************************************************)
\* no driver constructed yet
DrvIdle(colors) ==
  /\ kind = "none"
  /\ status = "new"
  /\ drv = NoDriver
  /\ mbox = "closed"
  /\ dmaBuf = "none"
  /\ ctorCalls = << >>
  /\ closes = 0
  /\ freeCalls = 0
  /\ lastOp = Op("none", -1, << >>, "ok", << >>)
  /\ palette = colors

\* the state right after the constructor call that did r, every call of its
\* environment having succeeded
AfterConstruction(k, r, colors) ==
  /\ kind = k
  /\ status = "open"
  /\ drv = r.drv
  /\ mbox = r.mbox
  /\ dmaBuf = r.dmaBuf
  /\ ctorCalls = r.calls
  /\ freeCalls = r.frees
  /\ closes = 0
  /\ lastOp = Op("New" \o k, -1, << >>, "ok", r.calls)
  /\ rasPiVariants = SortedOnce
  /\ sortRasPiVariantsOnce = TRUE
  /\ hwModel = GoodModel
  /\ hwResult = r.det
  /\ palette = colors

\* hardware detection alone
InitHW == HwInit /\ SzIdle /\ DrvIdle(LifecyclePalette)
NextHW == detectHardware /\ UNCHANGED <<szVars, drvVars>>
SpecHW == InitHW /\ [][NextHW]_vars

\* the sizing function alone
InitSize == SzInit /\ HwInit /\ DrvIdle(LifecyclePalette)
NextSize ==
  \/ CallPwmByteCount /\ UNCHANGED <<hwVars, drvVars>>
  \/ NextSizeInput /\ UNCHANGED <<hwVars, drvVars>>
SpecSize == InitSize /\ [][NextSize]_vars

\* the life of one driver: construction, pixel writes, flushes, Close
Init == HwInit /\ SzIdle /\ DrvIdle(LifecyclePalette)
Next ==
  \/ NewWS281xCall
  \/ NewLPD8806Call
  \/ SetRGBAtCall
  \/ FlushCall
  \/ CloseCall
Spec == Init /\ [][Next]_vars

\* the pixel accessors of a constructed driver of either kind
InitPix ==
  /\ SzIdle
  /\ \/ \E config \in WSConfigs :
          AfterConstruction("WS281x", NewWS281x(config, SortedOnce, GoodEnv(0)),
                            PixPalette)
     \/ \E config \in LPDConfigs :
          /\ config.SPISpeed = 0
          /\ AfterConstruction("LPD8806",
                               NewLPD8806(config, SortedOnce, GoodEnv(0)), PixPalette)
NextPix ==
  \/ SetRGBAtCall
  \/ SetRGBWAtCall
  \/ SetRGBsCall
  \/ SetRGBWsCall
SpecPix == InitPix /\ [][NextPix]_vars

\* the encoder of a constructed WS281x driver, over every byte value
InitEnc ==
  /\ SzIdle
  /\ \E config \in EncConfigs, fill \in {0, 1}, colors \in SweepPalettes :
       AfterConstruction("WS281x", NewWS281x(config, SortedOnce, GoodEnv(fill)),
                         colors)
NextEnc ==
  \/ SetRGBAtCall
  \/ SetRGBWAtCall
  \/ FlushCall
SpecEnc == InitEnc /\ [][NextEnc]_vars

(***************************************************************************)
(* Properties                                                              *)
(***************************************************************************)
\* the last detectHardware call read the model file
HwAnswered ==
  hwResult.err \notin {"not called", "couldn't open model file"}

\* the cataloged variants whose name is a prefix of the model string
PrefixVariants(model) ==
  { rasPiVariantsSrc[k] : k \in { j \in 1..Len(rasPiVariantsSrc) :
                                    HasPrefix(model, rasPiVariantsSrc[j].name) } }

\* C3 as stated: a model string that is a cataloged name N, or N followed by
\* any suffix, resolves to N's record (hwType, periphBase, vcBase, name); a
\* string with no cataloged prefix yields an error and no record.
C3_EveryPrefixResolvesToItsVariant ==
  HwAnswered =>
    /\ \A v \in PrefixVariants(hwModel) :
         hwResult.hw = <<v>> /\ hwResult.err = "nil"
    /\ PrefixVariants(hwModel) = {} =>
         hwResult.hw = << >> /\ hwResult.err # "nil"

\* C3 amended: detectHardware returns the record of the longest cataloged
\* name that is a prefix of the model string; so a model string equal to N
\* resolves to N's record, and N followed by a suffix resolves to N's record
\* unless a longer cataloged name is a prefix of the string too; a string
\* with no cataloged prefix yields an error and no record.
C3_LongestPrefixResolves ==
  HwAnswered =>
    LET P == PrefixVariants(hwModel)
    IN  /\ P = {} => hwResult.hw = << >> /\ hwResult.err # "nil"
        /\ \A v \in P :
             (\A u \in P : Len(u.name) <= Len(v.name)) =>
               hwResult.hw = <<v>> /\ hwResult.err = "nil"
        /\ \A v \in P : v.name = hwModel => hwResult.hw = <<v>>

\* C3 witness: a model string with two cataloged prefixes was resolved
C3_Witness ==
  /\ HwAnswered
  /\ Cardinality(PrefixVariants(hwModel)) >= 2
  /\ hwResult.err = "nil"
  /\ hwModel \notin CatalogNames

CeilDiv(a, b) == (a + b - 1) \div b

\* the reset gap in PWM bits, rounded up
ResetBitsCeil(freq) == CeilDiv(ledReset_us * freq * 3, 1000000)

\* C9: pwmByteCount is a multiple of 4 bytes per channel, and each channel's
\* share, in bits, holds the 3*numColors*numPixels*8 data bits and a reset
\* gap of ceil(55 * frequency * 3 / 1000000) bits.
C9_CapacityHoldsDataAndReset ==
  szOut # -1 =>
    LET perChannel == szOut \div RPI_PWM_CHANNELS
    IN  /\ perChannel * RPI_PWM_CHANNELS = szOut
        /\ perChannel % 4 = 0
        /\ perChannel * 8 >= 3 * szIn.numColors * szIn.numPixels * 8
                               + ResetBitsCeil(szIn.freq)

\* C9 witness: a call where the reset gap is not a whole number of bits and
\* the channel's share is exactly the bits needed
C9_Witness ==
  /\ szOut # -1
  /\ szIn.numPixels >= 1 /\ szIn.numColors \in {3, 4}
  /\ (ledReset_us * szIn.freq * 3) % 1000000 # 0
  /\ (szOut \div RPI_PWM_CHANNELS) * 8
       = 3 * szIn.numColors * szIn.numPixels * 8 + ResetBitsCeil(szIn.freq)

\* C10: pwmByteCount is non-decreasing in each of numPixels, numColors and
\* frequency, the other two held fixed.
C10_Monotone ==
  szOut # -1 =>
    /\ \A n \in SizePixels : n >= szIn.numPixels =>
         pwmByteCount(szIn.numColors, n, szIn.freq) >= szOut
    /\ \A c \in SizeColors : c >= szIn.numColors =>
         pwmByteCount(c, szIn.numPixels, szIn.freq) >= szOut
    /\ \A f \in Frequencies : f >= szIn.freq =>
         pwmByteCount(szIn.numColors, szIn.numPixels, f) >= szOut

\* C10 witness: a call whose result is strictly below that of a larger strip,
\* of a wider color model and of a higher frequency
C10_Witness ==
  /\ szOut # -1
  /\ \E n \in SizePixels : n > szIn.numPixels
        /\ pwmByteCount(szIn.numColors, n, szIn.freq) > szOut
  /\ \E c \in SizeColors : c > szIn.numColors
        /\ pwmByteCount(c, szIn.numPixels, szIn.freq) > szOut
  /\ \E f \in Frequencies : f > szIn.freq
        /\ pwmByteCount(szIn.numColors, szIn.numPixels, f) > szOut


(***************************************************************************)
(* Decoding the symbol buffer, as a strip on one PWM channel reads it      *)
(***************************************************************************)
\* bit q (0 first) of channel c: words c, c+2, c+4, ..., bit 31 first
ChannelBit(buf, c, q) ==
  IF (31 - (q % 32)) \in buf[c + 2 * (q \div 32) + 1] THEN 1 ELSE 0

\* the n-th 3-bit group of channel c
SymbolAt(buf, c, n) ==
  4 * ChannelBit(buf, c, 3 * n) + 2 * ChannelBit(buf, c, 3 * n + 1)
    + ChannelBit(buf, c, 3 * n + 2)

\* byte m of channel c: eight groups, 0b110 is 1 and 0b100 is 0, bit 7 first
DecodedByte(buf, c, m) ==
  LET d(t) == IF SymbolAt(buf, c, 8 * m + t) = 6 THEN 1 ELSE 0
  IN  128 * d(0) + 64 * d(1) + 32 * d(2) + 16 * d(3)
        + 8 * d(4) + 4 * d(5) + 2 * d(6) + d(7)

\* the bytes channel c carries in its first 24*numColors*numPixels bits
Decoded(ws, c) ==
  [m \in 1..(ws.numColors * ws.numPixels) |->
     DecodedByte(ws.pixDMAUint, c, m - 1)]

FlushedOk == kind = "WS281x" /\ lastOp.name = "Flush" /\ lastOp.res = "ok"

\* C1: after a successful Flush, on each of the two channels every 3-bit
\* group of the first 24*numColors*numPixels bits is 0b110 or 0b100 and the
\* groups decode to the bytes of the pixel buffer in storage order; with
\* green, red, blue stored in slots 0, 1, 2 the first bytes of channel 0 are
\* [g, r, b] of pixel 0.
C1_EncodingRoundTrip ==
  FlushedOk =>
    /\ \A c \in {0, 1} :
         /\ 32 * ((Len(drv.pixDMAUint) - c + 1) \div 2)
              >= 24 * drv.numColors * drv.numPixels
         /\ \A n \in 0..(8 * drv.numColors * drv.numPixels - 1) :
              SymbolAt(drv.pixDMAUint, c, n) \in {6, 4}
         /\ Decoded(drv, c) = drv.pixels
    /\ (drv.numPixels >= 1 /\ drv.g = 0 /\ drv.r = 1 /\ drv.b = 2) =>
         LET p0 == WS281x_RGBAt(drv, 0).val
         IN  SubSeq(Decoded(drv, 0), 1, 3) = <<p0.G, p0.R, p0.B>>

\* C1 witness: a flush of a buffer holding the byte 0xA5 next to others
C1_Witness ==
  /\ FlushedOk
  /\ \E k \in 1..Len(drv.pixels) : drv.pixels[k] = 165
  /\ \E k \in 1..Len(drv.pixels) : drv.pixels[k] \notin {0, 165}
  /\ Decoded(drv, 1) = drv.pixels

CallNames(calls) == [k \in 1..Len(calls) |-> calls[k][1]]

IsPrefix(s, t) == Len(s) <= Len(t) /\ SubSeq(t, 1, Len(s)) = s

\* C2: every WS281x.Flush calls WaitForDMAEnd, then encodes, then calls
\* StartDMA, in that order; it returns an error exactly when WaitForDMAEnd
\* did, and then the symbol buffer is unchanged and StartDMA is not called;
\* the symbol buffer changes only after WaitForDMAEnd succeeded.
C2_FlushOrder ==
  [][ (kind = "WS281x" /\ lastOp'.name = "Flush") =>
        LET calls == lastOp'.calls
            waitOk == calls[1][2]
        IN  /\ Len(calls) >= 1
            /\ IsPrefix(CallNames(calls), <<"WaitForDMAEnd", "encode", "StartDMA">>)
            /\ (lastOp'.res = "err") <=> ~waitOk
            /\ ~waitOk => drv'.pixDMAUint = drv.pixDMAUint /\ Len(calls) = 1
            /\ drv'.pixDMAUint # drv.pixDMAUint => waitOk
            /\ (waitOk /\ dmaBuf = "live") =>
                 lastOp'.res = "ok" /\ Len(calls) = 3 ]_vars

\* C2 witness: a Flush whose wait failed while the pixel buffer held bytes
\* the symbol buffer did not
C2_Witness ==
  /\ kind = "WS281x" /\ status = "open"
  /\ lastOp.name = "Flush" /\ lastOp.res = "err"
  /\ drv.numPixels >= 1
  /\ Decoded(drv, 0) # drv.pixels

\* the last bulk setter call broke the contract: wrong color count or length
ContractBroken(op, d) ==
  \/ op.name = "SetRGBs" /\ (d.numColors # 3 \/ Len(op.arg) # d.numPixels)
  \/ op.name = "SetRGBWs" /\ (d.numColors # 4 \/ Len(op.arg) # d.numPixels)

\* C4: SetRGBs on a driver whose numColors is not 3, SetRGBWs on one whose
\* numColors is not 4, and either with a sequence whose length is not
\* numPixels, panics and leaves the pixel buffer as it was (both drivers).
C4_BulkSetterContract ==
  [][ ContractBroken(lastOp', drv) =>
        lastOp'.res = "panic" /\ drv'.pixels = drv.pixels ]_vars

\* C4 witness: SetRGBs panicked on a 3-color strip holding set pixels, given
\* a sequence one color too long
C4_Witness ==
  /\ lastOp.name = "SetRGBs" /\ lastOp.res = "panic"
  /\ drv.numColors = 3 /\ drv.numPixels >= 1
  /\ Len(lastOp.arg) = drv.numPixels + 1
  /\ \E k \in 1..Len(drv.pixels) : drv.pixels[k] # 0

\* C5 as stated: when a constructor returns an error, the mailbox it opened
\* and the DMA buffer it got have been released.
C5_NoLeakOnFailure ==
  status = "failed" => mbox # "open" /\ dmaBuf # "live"

\* C6 as stated: after a successful WS281x.Close, Flush returns an error,
\* does not touch the released symbol buffer and does not call StartDMA.
C6_FlushAfterCloseFails ==
  (kind = "WS281x" /\ status \in {"closed", "crashed"} /\ lastOp.name = "Flush") =>
    /\ lastOp.res = "err"
    /\ \A k \in 1..Len(lastOp.calls) :
         lastOp.calls[k][1] \notin {"encode", "StartDMA"}

\* the accessor reads back what the last single-pixel setter stored
ReadsBack ==
  /\ lastOp.name = "SetRGBAt" =>
       WS281x_RGBAt(drv, lastOp.i) = [panic |-> FALSE, val |-> lastOp.arg[1]]
  /\ lastOp.name = "SetRGBWAt" =>
       WS281x_RGBWAt(drv, lastOp.i) = [panic |-> FALSE, val |-> lastOp.arg[1]]

\* C7: for each of the seven color orders, every valid index and value, the
\* pixel set with SetRGBAt (SetRGBWAt on an order with a white slot) reads
\* back the same through RGBAt (RGBWAt), and the order's slots are distinct.
C7_ColorOrderRoundTrip ==
  kind = "WS281x" =>
    /\ Cardinality({drv.g, drv.r, drv.b}) = 3
    /\ {drv.g, drv.r, drv.b} = 0..2
    /\ drv.w \notin {drv.g, drv.r, drv.b}
    /\ drv.w \in {-1, 3}
    /\ lastOp.name = "SetRGBAt" => lastOp.res = "ok"
    /\ (lastOp.name = "SetRGBWAt" /\ drv.w = 3 /\ drv.numColors = 4) =>
         lastOp.res = "ok"
    /\ lastOp.res = "ok" => ReadsBack

\* C7 witness: an RGBW pixel other than the first, of four distinct values,
\* was set and reads back
C7_Witness ==
  /\ kind = "WS281x" /\ lastOp.name = "SetRGBWAt" /\ lastOp.res = "ok"
  /\ drv.w = 3 /\ drv.numColors = 4 /\ lastOp.i >= 1
  /\ Cardinality({lastOp.arg[1].R, lastOp.arg[1].G, lastOp.arg[1].B,
                  lastOp.arg[1].W}) = 4
  /\ WS281x_RGBWAt(drv, lastOp.i).val = lastOp.arg[1]

\* position of a call in the constructor's calls (0 if it was not made)
CallPos(name) ==
  IF \E k \in 1..Len(ctorCalls) : ctorCalls[k][1] = name
    THEN CHOOSE k \in 1..Len(ctorCalls) : ctorCalls[k][1] = name
    ELSE 0

GotDMABuf == \E k \in 1..Len(ctorCalls) : ctorCalls[k] = Call("GetDMABuf", TRUE)

\* C8: FreeDMABuf is called once in a run of NewWS281x and at most one Close
\* if GetDMABuf succeeded and never if it did not, and not while the
\* constructed driver is unclosed; InitDMA, InitGPIO and InitPWM are called
\* in that order, each after the one before succeeded and after GetDMABuf
\* succeeded; Close calls StopPWM, then FreeDMABuf.
C8_FreedExactlyOnce ==
  kind = "WS281x" =>
    /\ status = "failed" => freeCalls = IF GotDMABuf THEN 1 ELSE 0
    /\ (status = "open" /\ closes = 0) => freeCalls = 0 /\ dmaBuf = "live"
    /\ closes = 1 => freeCalls = 1 /\ GotDMABuf
    /\ CallPos("InitDMA") # 0 =>
         ctorCalls[CallPos("InitDMA") - 1] = Call("GetDMABuf", TRUE)
    /\ CallPos("InitGPIO") # 0 =>
         ctorCalls[CallPos("InitGPIO") - 1] = Call("InitDMA", TRUE)
    /\ CallPos("InitPWM") # 0 =>
         ctorCalls[CallPos("InitPWM") - 1] = Call("InitGPIO", TRUE)
    /\ lastOp.name = "Close" =>
         CallNames(lastOp.calls) = <<"StopPWM", "FreeDMABuf">>

\* C8 witness: a driver was constructed and closed
C8_Witness ==
  /\ kind = "WS281x" /\ status = "closed" /\ closes = 1 /\ freeCalls = 1
  /\ CallPos("InitPWM") = 5

\* the last call was a bulk setter matching the driver's color count, given
\* one color per pixel of a strip of at least one pixel
BulkSetOnMatchingDriver ==
  /\ kind = "WS281x"
  /\ drv.numPixels >= 1
  /\ Len(lastOp.arg) = drv.numPixels
  /\ \/ lastOp.name = "SetRGBs" /\ drv.numColors = 3
     \/ lastOp.name = "SetRGBWs" /\ drv.numColors = 4 /\ drv.w = 3

\* the per-pixel accessor of the last bulk setter, at pixel i
BulkAccessor(i) ==
  IF lastOp.name = "SetRGBs" THEN WS281x_RGBAt(drv, i) ELSE WS281x_RGBWAt(drv, i)

\* C11 as stated: SetRGBs(p) on a 3-channel driver, and SetRGBWs(p) on a
\* 4-channel driver, with len(p) = numPixels >= 1, completes without a fault
\* and afterwards the per-pixel accessor returns p[i] at every index i.
C11_BulkSetterStoresEveryPixel ==
  BulkSetOnMatchingDriver =>
    /\ lastOp.res = "ok"
    /\ \A i \in 0..(drv.numPixels - 1) :
         BulkAccessor(i) = [panic |-> FALSE, val |-> lastOp.arg[i + 1]]

\* a color order with the color model it is meant for: three slots on a
\* 3-color driver, four on a 4-color one
SupportedCombination(d) ==
  \/ d.numColors = 3 /\ d.w = -1
  \/ d.numColors = 4 /\ d.w = 3

\* the 1-based positions in the pixel buffer of the bytes of pixel i
BytesOfPixel(d, i) == (i * d.numColors + 1)..((i + 1) * d.numColors)

\* C12 as stated: on every supported color order and color model, SetRGBAt(i, v)
\* and SetRGBWAt(i, v) with 0 <= i < numPixels do not fault, write only bytes
\* of pixel i, and leave the other pixels' bytes and the buffer length
\* (numPixels * numColors) unchanged.
C12_SinglePixelSetterConfined ==
  [][ ( /\ kind = "WS281x"
        /\ SupportedCombination(drv)
        /\ lastOp' # lastOp
        /\ lastOp'.name \in {"SetRGBAt", "SetRGBWAt"}
        /\ lastOp'.i \in 0..(drv.numPixels - 1) ) =>
        /\ lastOp'.res = "ok"
        /\ Len(drv'.pixels) = drv.numPixels * drv.numColors
        /\ Len(drv'.pixels) = Len(drv.pixels)
        /\ \A k \in 1..Len(drv.pixels) :
             k \notin BytesOfPixel(drv, lastOp'.i) => drv'.pixels[k] = drv.pixels[k]
    ]_vars

\* the PWM frequencies a driver is constructed with
ConfiguredFrequencies == { c.PWMFrequency : c \in LifeConfigs \cup EncConfigs }

\* the PWM bits of one channel that hold pixel data
DataBits(d) == 24 * d.numColors * d.numPixels

\* the place of bit b of word k (0-based) in its channel's bit sequence: the
\* channel's words are every second word, and bit 31 goes out first
StreamPos(k, b) == (k \div 2) * 32 + (31 - b)

\* C13: a WS281x.Flush on the symbol buffer the constructor got, of
\* pwmByteCount(frequency)/4 words, does not index past its end; it changes
\* only the first 24*numColors*numPixels bits of each channel's word sequence,
\* leaving every other bit of the symbol buffer (the reset gap included), the
\* length of the symbol buffer and the whole pixel buffer as they were.
C13_FlushWriteSet ==
  [][ ( /\ kind = "WS281x" /\ dmaBuf = "live"
        /\ lastOp' # lastOp
        /\ lastOp'.name = "Flush" ) =>
        /\ lastOp'.res \in {"ok", "err"}
        /\ \E f \in ConfiguredFrequencies :
             Len(drv.pixDMAUint) * 4 = pwmByteCount(drv.numColors, drv.numPixels, f)
        /\ Len(drv'.pixDMAUint) = Len(drv.pixDMAUint)
        /\ \A k \in 0..(Len(drv.pixDMAUint) - 1), b \in 0..31 :
             StreamPos(k, b) >= DataBits(drv) =>
               ((b \in drv'.pixDMAUint[k + 1]) <=> (b \in drv.pixDMAUint[k + 1]))
        /\ \A c \in 0..1 :
             DataBits(drv) <= 32 * Cardinality({ k \in 0..(Len(drv.pixDMAUint) - 1) :
                                                   k % 2 = c })
        /\ drv'.pixels = drv.pixels
    ]_vars

\* C13 witness: a Flush of a 3-color pixel wrote the 72 data bits of each
\* channel into memory that held all ones: the third word of each channel
\* has zeros among its first 8 bits and its other 24 bits still set
C13_Witness ==
  /\ kind = "WS281x" /\ dmaBuf = "live"
  /\ lastOp.name = "Flush" /\ lastOp.res = "ok"
  /\ drv.numColors = 3 /\ drv.numPixels = 1
  /\ \A k \in {4, 5} :
       /\ k < Len(drv.pixDMAUint)
       /\ 0..23 \subseteq drv.pixDMAUint[k + 1]
       /\ ~(24..31 \subseteq drv.pixDMAUint[k + 1])

====
